---- MODULE Spec2Model ----
(***************************************************************************)
(* Model of src/src/wallet/WalletTransactionSender.cpp: the wallet's send  *)
(* pipeline (validate, select coins, optional decoy fetch, prepare inputs, *)
(* split destinations, construct, relay, completion), with several sends   *)
(* in flight, interleaved at the two suspension points.                    *)
(***************************************************************************)
EXTENDS Integers, Sequences, FiniteSets, TLC

\* ------------------------------------------------------------------ bounds
\* Width in bits of the money integers (uint64_t / int64_t in the source).
W == 4
\* Largest number of transfers in one makeSendRequest call.
MaxTransfers == 2
\* Largest number of makeSendRequest calls (so also of sends in flight).
MaxCalls == 2
\* Largest mixin count a caller asks for.
MaxMixin == 1
\* Largest global amount index the decoy-fetch collaborator answers with.
MaxGidx == 1

Mod == 2^W
MaxSigned == 2^(W - 1) - 1

\* uint64_t arithmetic: a value reduced modulo 2^W.
ToU(x) == x % Mod
\* static_cast<int64_t>(x) of an unsigned value.
ToS(x) == IF ToU(x) > MaxSigned THEN ToU(x) - Mod ELSE ToU(x)

\* ------------------------------------------------------------- error codes
NoError == ""
ZERO_DESTINATION == "ZERO_DESTINATION"
WRONG_AMOUNT == "WRONG_AMOUNT"
SUM_OVERFLOW == "SUM_OVERFLOW"
BAD_ADDRESS == "BAD_ADDRESS"
INTERNAL_WALLET_ERROR == "INTERNAL_WALLET_ERROR"
MIXIN_COUNT_TOO_BIG == "MIXIN_COUNT_TOO_BIG"
TRANSACTION_SIZE_TOO_BIG == "TRANSACTION_SIZE_TOO_BIG"
TX_CANCELLED == "TX_CANCELLED"
\* An error code handed in by the external request layer (decoy fetch, relay).
NETWORK_ERROR == "NETWORK_ERROR"

\* -------------------------------------------------------- sequence helpers
RECURSIVE SumSeq(_)
SumSeq(s) == IF s = <<>> THEN 0 ELSE Head(s) + SumSeq(Tail(s))

Range(s) == {s[i] : i \in 1..Len(s)}

SeqsUpTo(S, n) == UNION {[1..k -> S] : k \in 0..n}

\* ----------------------------------------------------- countNeededMoney
RECURSIVE countNeededMoneyLoop(_, _, _)
countNeededMoneyLoop(needed_money, transfers, i) ==
  IF i > Len(transfers) THEN [ec |-> NoError, value |-> needed_money]
  ELSE LET amount == transfers[i].amount IN
       IF amount = 0 THEN [ec |-> ZERO_DESTINATION, value |-> 0]
       ELSE IF amount < 0 THEN [ec |-> WRONG_AMOUNT, value |-> 0]
       ELSE LET nm == ToU(needed_money + amount) IN
            IF ToS(nm) < amount THEN [ec |-> SUM_OVERFLOW, value |-> 0]
            ELSE countNeededMoneyLoop(nm, transfers, i + 1)

\* countNeededMoney without the check of line 29.
RECURSIVE countNeededMoneyLoop_NoOverflowCheck(_, _, _)
countNeededMoneyLoop_NoOverflowCheck(needed_money, transfers, i) ==
  IF i > Len(transfers) THEN [ec |-> NoError, value |-> needed_money]
  ELSE LET amount == transfers[i].amount IN
       IF amount = 0 THEN [ec |-> ZERO_DESTINATION, value |-> 0]
       ELSE IF amount < 0 THEN [ec |-> WRONG_AMOUNT, value |-> 0]
       ELSE countNeededMoneyLoop_NoOverflowCheck(ToU(needed_money + amount), transfers,
                                                 i + 1)

countNeededMoney_NoOverflowCheck(fee, transfers) ==
  countNeededMoneyLoop_NoOverflowCheck(fee, transfers, 1)

countNeededMoney(fee, transfers) == countNeededMoneyLoop(fee, transfers, 1)

\* ------------------------------------------------------------ collaborators
\* Currency::parseAccountAddressString: an address string parses or it does not;
\* the parsed address is represented by the string itself.
ValidAddresses == {"addrA", "addrB"}
parseAccountAddressString(address) == address \in ValidAddresses

\* m_keys.m_account_address, the wallet's own address (receives the change).
m_account_address == "self"

\* ITransfersContainer: the owned outputs. outputKey identifies the output (it
\* stands for the one-time key, the transaction public key and the index in the
\* transaction together).
WalletOutputs ==
  << [outputKey |-> "k1", amount |-> 1,  globalOutputIndex |-> 0, unlocked |-> TRUE],
     [outputKey |-> "k2", amount |-> 2,  globalOutputIndex |-> 0, unlocked |-> TRUE],
     [outputKey |-> "k4", amount |-> 4,  globalOutputIndex |-> 1, unlocked |-> FALSE] >>

RECURSIVE FilterUnlocked(_)
FilterUnlocked(s) ==
  IF s = <<>> THEN <<>>
  ELSE IF Head(s).unlocked
       THEN <<[outputKey |-> Head(s).outputKey, amount |-> Head(s).amount,
               globalOutputIndex |-> Head(s).globalOutputIndex]>> \o FilterUnlocked(Tail(s))
       ELSE FilterUnlocked(Tail(s))

\* ITransfersContainer::getOutputs(outputs, IncludeKeyUnlocked)
getOutputs == FilterUnlocked(WalletOutputs)

\* ITransfersContainer::balance(flags)
balance(wantUnlocked) ==
  SumSeq([i \in 1..Len(WalletOutputs) |->
            IF WalletOutputs[i].unlocked = wantUnlocked THEN WalletOutputs[i].amount ELSE 0])

\* cryptonote::decompose_amount_into_digits: the handler calls it makes, in order,
\* each [kind |-> "chunk" or "dust", amount].
RECURSIVE decomposeLoop(_, _, _, _, _, _)
decomposeLoop(amount, dust_threshold, order, dust, is_dust_handled, calls) ==
  IF amount = 0
  THEN IF ~is_dust_handled /\ dust # 0
       THEN Append(calls, [kind |-> "dust", amount |-> dust])
       ELSE calls
  ELSE LET chunk == ToU((amount % 10) * order) IN
       IF ToU(dust + chunk) <= dust_threshold
       THEN decomposeLoop(amount \div 10, dust_threshold, ToU(order * 10),
                          ToU(dust + chunk), is_dust_handled, calls)
       ELSE LET handleDust == ~is_dust_handled /\ dust # 0
                c1 == IF handleDust
                      THEN Append(calls, [kind |-> "dust", amount |-> dust])
                      ELSE calls
                c2 == IF chunk # 0
                      THEN Append(c1, [kind |-> "chunk", amount |-> chunk])
                      ELSE c1
            IN decomposeLoop(amount \div 10, dust_threshold, ToU(order * 10),
                             dust, is_dust_handled \/ handleDust, c2)

decompose_amount_into_digits(amount, dust_threshold) ==
  IF amount = 0 THEN <<>>
  ELSE decomposeLoop(amount, dust_threshold, 1, 0, FALSE, <<>>)

\* --------------------------------------------------- createChangeDestinations
\* changeDts is value-initialised (amount 0, empty address) before the call.
\* createChangeDestinations with the operands of the subtraction exchanged.
createChangeDestinations_Exchanged(address, neededMoney, foundMoney) ==
  IF neededMoney < foundMoney
  THEN [addr |-> address, amount |-> ToU(neededMoney - foundMoney)]
  ELSE [addr |-> "", amount |-> 0]

createChangeDestinations(address, neededMoney, foundMoney) ==
  IF neededMoney < foundMoney
  THEN [addr |-> address, amount |-> ToU(foundMoney - neededMoney)]
  ELSE [addr |-> "", amount |-> 0]

\* ---------------------------------------------------------- digitSplitStrategy
\* The destination entries one transfer decomposes into: chunk and dust handler
\* both push an entry to the transfer's address.
TransferEntries(de, dust_threshold) ==
  LET calls == decompose_amount_into_digits(de.amount, dust_threshold)
  IN [i \in 1..Len(calls) |-> [amount |-> calls[i].amount, addr |-> de.address]]

RECURSIVE digitSplitTransfers(_, _, _, _, _)
digitSplitTransfers(transfers, idx, last, dust_threshold, splitted_dsts) ==
  IF idx > last THEN [ec |-> NoError, splitted_dsts |-> splitted_dsts]
  ELSE LET de == transfers[idx] IN
       IF ~parseAccountAddressString(de.address)
       THEN [ec |-> BAD_ADDRESS, splitted_dsts |-> splitted_dsts]
       ELSE digitSplitTransfers(transfers, idx + 1, last, dust_threshold,
                                splitted_dsts \o TransferEntries(de, dust_threshold))

\* transfers is the cache's transfer store (getTransfer(idx)); ids count from 1.
digitSplitStrategy(transfers, firstTransferId, transfersCount, change_dst, dust_threshold) ==
  LET own == digitSplitTransfers(transfers, firstTransferId,
                                 firstTransferId + transfersCount - 1, dust_threshold, <<>>)
      calls == decompose_amount_into_digits(change_dst.amount, dust_threshold)
      chunks == SelectSeq(calls, LAMBDA c : c.kind = "chunk")
      dusts == SelectSeq(calls, LAMBDA c : c.kind = "dust")
  IN IF own.ec # NoError THEN [ec |-> own.ec, splitted_dsts |-> own.splitted_dsts, dust |-> 0]
     ELSE [ec |-> NoError,
           splitted_dsts |-> own.splitted_dsts \o
              [i \in 1..Len(chunks) |-> [amount |-> chunks[i].amount, addr |-> change_dst.addr]],
           dust |-> IF dusts = <<>> THEN 0 ELSE dusts[Len(dusts)].amount]

\* ------------------------------------------------------------ splitDestinations
\* splitDestinations without the check of line 213.
splitDestinationsFrom_NoCheck(r, dustPolicy) ==
  IF r.ec # NoError THEN [ec |-> r.ec, splittedDests |-> r.splitted_dsts, dust |-> r.dust]
  ELSE IF r.dust # 0 /\ ~dustPolicy.addToFee
  THEN [ec |-> NoError,
        splittedDests |-> Append(r.splitted_dsts,
                                 [amount |-> r.dust, addr |-> dustPolicy.addrForDust]),
        dust |-> r.dust]
  ELSE [ec |-> NoError, splittedDests |-> r.splitted_dsts, dust |-> r.dust]

\* Lines 213-216, after digitSplitStrategy returned r.
splitDestinationsFrom(r, dustPolicy) ==
  IF r.ec # NoError THEN [ec |-> r.ec, splittedDests |-> r.splitted_dsts, dust |-> r.dust]
  ELSE IF dustPolicy.dustThreshold < r.dust
  THEN [ec |-> INTERNAL_WALLET_ERROR, splittedDests |-> r.splitted_dsts, dust |-> r.dust]
  ELSE IF r.dust # 0 /\ ~dustPolicy.addToFee
  THEN [ec |-> NoError,
        splittedDests |-> Append(r.splitted_dsts,
                                 [amount |-> r.dust, addr |-> dustPolicy.addrForDust]),
        dust |-> r.dust]
  ELSE [ec |-> NoError, splittedDests |-> r.splitted_dsts, dust |-> r.dust]

splitDestinations(transfers, firstTransferId, transfersCount, changeDts, dustPolicy) ==
  splitDestinationsFrom(digitSplitStrategy(transfers, firstTransferId, transfersCount,
                                           changeDts, dustPolicy.dustThreshold),
                        dustPolicy)

\* ---------------------------------------------------------------- prepareInputs
\* std::list::sort by global_amount_index (stable): insertion of each entry after
\* the entries that are not greater.
RECURSIVE InsertSorted(_, _)
InsertSorted(sorted, e) ==
  IF sorted = <<>> THEN <<e>>
  ELSE IF e.global_amount_index < Head(sorted).global_amount_index
       THEN <<e>> \o sorted
       ELSE <<Head(sorted)>> \o InsertSorted(Tail(sorted), e)

RECURSIVE SortOuts(_)
SortOuts(l) ==
  IF l = <<>> THEN <<>>
  ELSE InsertSorted(SortOuts(SubSeq(l, 1, Len(l) - 1)), l[Len(l)])

\* The loop without the skip of lines 262-263.
RECURSIVE PasteMixin_NoSkip(_, _, _, _, _)
PasteMixin_NoSkip(sortedOuts, k, td, mixIn, outputs) ==
  IF k > Len(sortedOuts) THEN outputs
  ELSE LET pushed == Append(outputs, [first |-> sortedOuts[k].global_amount_index,
                                      second |-> sortedOuts[k].out_key])
       IN IF Len(pushed) >= mixIn THEN pushed
          ELSE PasteMixin_NoSkip(sortedOuts, k + 1, td, mixIn, pushed)

\* The loop over the sorted decoys of one amount: skip the real output's index,
\* push, stop once the entry holds mixIn outputs.
RECURSIVE PasteMixin(_, _, _, _, _)
PasteMixin(sortedOuts, k, td, mixIn, outputs) ==
  IF k > Len(sortedOuts) THEN outputs
  ELSE IF td.globalOutputIndex = sortedOuts[k].global_amount_index
       THEN PasteMixin(sortedOuts, k + 1, td, mixIn, outputs)
       ELSE LET pushed == Append(outputs, [first |-> sortedOuts[k].global_amount_index,
                                           second |-> sortedOuts[k].out_key])
            IN IF Len(pushed) >= mixIn THEN pushed
               ELSE PasteMixin(sortedOuts, k + 1, td, mixIn, pushed)

\* std::find_if: the first position (1-based) whose index is >= the real one, or
\* one past the end.
RECURSIVE FindInsertPos(_, _, _)
FindInsertPos(outputs, g, k) ==
  IF k > Len(outputs) THEN k
  ELSE IF outputs[k].first >= g THEN k
  ELSE FindInsertPos(outputs, g, k + 1)

\* The source entry without the sort of line 260.
SourceEntry_Unsorted(td, daemonOuts, hasOuts, mixIn) ==
  LET pasted == IF hasOuts THEN PasteMixin(daemonOuts, 1, td, mixIn, <<>>) ELSE <<>>
      pos == FindInsertPos(pasted, td.globalOutputIndex, 1)
      real_oe == [first |-> td.globalOutputIndex, second |-> td.outputKey]
  IN [amount |-> td.amount,
      outputs |-> SubSeq(pasted, 1, pos - 1) \o <<real_oe>> \o SubSeq(pasted, pos, Len(pasted)),
      real_output |-> pos - 1,
      real_out_tx_key |-> td.outputKey]

\* One source entry, from the selected output td and the decoys read for it
\* (<<>> when the response holds no decoy set at all).
SourceEntry(td, daemonOuts, hasOuts, mixIn) ==
  LET pasted == IF hasOuts THEN PasteMixin(SortOuts(daemonOuts), 1, td, mixIn, <<>>) ELSE <<>>
      pos == FindInsertPos(pasted, td.globalOutputIndex, 1)
      real_oe == [first |-> td.globalOutputIndex, second |-> td.outputKey]
  IN [amount |-> td.amount,
      outputs |-> SubSeq(pasted, 1, pos - 1) \o <<real_oe>> \o SubSeq(pasted, pos, Len(pasted)),
      real_output |-> pos - 1,
      real_out_tx_key |-> td.outputKey]

\* prepareInputs over the decoy sets as read at outs[0..]: the caller passes one
\* list per selected output whenever outs is not empty. Returns the source entries
\* and the decoy sets as the in-place sort leaves them.
prepareInputs(selectedTransfers, outs, mixIn) ==
  [sources |-> [i \in 1..Len(selectedTransfers) |->
                  SourceEntry(selectedTransfers[i],
                              IF Len(outs) > 0 THEN outs[i] ELSE <<>>,
                              Len(outs) > 0, mixIn)],
   outs |-> [i \in 1..Len(outs) |->
               IF i <= Len(selectedTransfers) THEN SortOuts(outs[i]) ELSE outs[i]]]

\* --------------------------------------------------------------- popRandomValue
\* popRandomValue without the removal of the drawn element (lines 311-314).
popRandomValue_NoRemove(idx, vec) ==
  [res |-> vec[idx + 1], vec |-> vec]

\* idx is the value drawn from uniform_int_distribution(0, vec.size() - 1).
popRandomValue(idx, vec) ==
  LET moved == IF idx + 1 # Len(vec) THEN [vec EXCEPT ![idx + 1] = vec[Len(vec)]] ELSE vec
  IN [res |-> vec[idx + 1], vec |-> SubSeq(moved, 1, Len(vec) - 1)]

\* ------------------------------------------------------------------------ state
VARIABLES
  m_isStoping,     \* the stop flag
  m_transactions,  \* the cache's transaction records, by transaction id (1-based)
  m_transfers,     \* the cache's transfer store, by transfer id (1-based)
  dustPolicy,      \* SendTransactionContext::dustPolicy as its constructor sets it
  contexts,        \* the SendTransactionContext of each send, by transaction id
  events,          \* the events pushed to the caller's queues, in order, by transaction id
  requests,        \* the requests handed to the external driver, in order, by transaction id
  lastCall,        \* how the last makeSendRequest call returned, and the calls so far
  constructed,     \* the arguments of the last cryptonote::construct_tx call
  crashed,         \* the process died on an out-of-bounds read
  evaluation       \* a helper function called on its own: its arguments and result

vars == <<m_isStoping, m_transactions, m_transfers, dustPolicy, contexts, events,
          requests, lastCall, constructed, crashed, evaluation>>

\* m_upperTransactionSizeLimit, in the units of get_object_blobsize.
m_upperTransactionSizeLimit == 4

\* No construct_tx call was made yet.
NoConstruct == [transactionId |-> 0, sources |-> <<>>, splittedDests |-> <<>>,
                dust |-> 0, foundMoney |-> 0, fee |-> 0, mixIn |-> 0,
                r |-> FALSE, blobSize |-> 0]

\* No helper function is being evaluated on its own.
NoEvaluation == [fn |-> "none"]

\* A context that was released (its last callback ran, or the send ended).
Released == [pc |-> "done", transactionId |-> 0, mixIn |-> 0,
             selectedTransfers |-> <<>>, outs |-> <<>>, foundMoney |-> 0]

\* The threshold is 0 or 1; with the threshold 0 no dust is ever left over, so
\* one disposal policy stands for both.
DustPolicies == {[dustThreshold |-> 0, addToFee |-> TRUE, addrForDust |-> "dustAddr"],
                 [dustThreshold |-> 1, addToFee |-> TRUE, addrForDust |-> "dustAddr"],
                 [dustThreshold |-> 1, addToFee |-> FALSE, addrForDust |-> "dustAddr"]}

\* The sender after its constructor ran, with an empty cache.
InitSender ==
  /\ m_isStoping = FALSE
  /\ m_transactions = <<>>
  /\ m_transfers = <<>>
  /\ contexts = <<>>
  /\ events = <<>>
  /\ requests = <<>>
  /\ lastCall = [seq |-> 0, result |-> "none", ec |-> NoError, stage |-> "none"]
  /\ constructed = NoConstruct
  /\ crashed = FALSE

Init ==
  /\ InitSender
  /\ dustPolicy \in DustPolicies
  /\ evaluation = NoEvaluation

\* ---------------------------------------------------- WalletUserTransactionsCache
\* isUsed(out): the output is among the outputs a pending transaction spends.
isUsed(txs, out) ==
  \E id \in 1..Len(txs) : out.outputKey \in {o.outputKey : o \in Range(txs[id].usedOutputs)}

\* addNewTransaction: a new record in the sending state, its transfers stored;
\* the total amount is the net spend, negative.
addNewTransaction(txs, neededMoney, fee, storeLen, transfers) ==
  Append(txs, [totalAmount |-> 0 - ToS(neededMoney), fee |-> fee,
               firstTransferId |-> storeLen + 1, transferCount |-> Len(transfers),
               hash |-> "", sendingState |-> "Sending", stateUpdates |-> 0,
               usedOutputs |-> <<>>])

\* updateTransaction: the final amount, and the spent outputs marked used.
updateTransaction(txs, transactionId, amount, usedOutputs) ==
  [txs EXCEPT ![transactionId].totalAmount = 0 - ToS(amount),
              ![transactionId].usedOutputs = usedOutputs]

updateTransactionSendingState(txs, transactionId, ec) ==
  [txs EXCEPT ![transactionId].sendingState = ec,
              ![transactionId].stateUpdates = @ + 1]

\* unconfrimedOutsAmount(): the amounts of the outputs pending transactions spend.
unconfrimedOutsAmount(txs) ==
  ToU(SumSeq([id \in 1..Len(txs) |->
                SumSeq([k \in 1..Len(txs[id].usedOutputs) |-> txs[id].usedOutputs[k].amount])]))

\* unconfirmedTransactionsAmount(): the amounts those transactions send.
unconfirmedTransactionsAmount(txs) ==
  ToU(SumSeq([id \in 1..Len(txs) |->
                IF txs[id].usedOutputs # <<>> THEN 0 - txs[id].totalAmount ELSE 0]))

\* ------------------------------------------------------------- makeCompleteEvent
CompletedEvent(transactionId, ec) ==
  [type |-> "SendTransactionCompleted", transactionId |-> transactionId, ec |-> ec,
   value |-> 0]

makeCompleteEvent(txs, transactionId, ec) ==
  [transactions |-> updateTransactionSendingState(txs, transactionId, ec),
   event |-> CompletedEvent(transactionId, ec)]

\* ---------------------------------------------------------- notifyBalanceChanged
notifyBalanceChanged(txs, evs) ==
  LET unconfirmedOutsAmount == unconfrimedOutsAmount(txs)
      change == ToU(unconfirmedOutsAmount - unconfirmedTransactionsAmount(txs))
      actualBalance == ToU(balance(TRUE) - unconfirmedOutsAmount)
      pendingBalance == ToU(balance(FALSE) + change)
  IN evs \o << [type |-> "ActualBalanceUpdated", transactionId |-> 0, ec |-> NoError,
                value |-> actualBalance],
               [type |-> "PendingBalanceUpdated", transactionId |-> 0, ec |-> NoError,
                value |-> pendingBalance] >>

\* ---------------------------------------------------------- selectTransfersToSend
\* The loop going on while foundMoney <= neededMoney.
RECURSIVE selectLoop_DrawsAtTarget(_, _, _, _, _, _, _)
selectLoop_DrawsAtTarget(outputs, neededMoney, unusedTransfers, unusedDust, selectOneDust, foundMoney, selectedTransfers) ==
  IF ~(foundMoney <= neededMoney /\ (unusedTransfers # <<>> \/ unusedDust # <<>>))
  THEN {[foundMoney |-> foundMoney, selectedTransfers |-> selectedTransfers]}
  ELSE IF selectOneDust \/ unusedTransfers = <<>>
  THEN UNION { LET p == popRandomValue(idx, unusedDust)
               IN selectLoop_DrawsAtTarget(outputs, neededMoney, unusedTransfers, p.vec, FALSE,
                             ToU(foundMoney + outputs[p.res].amount),
                             Append(selectedTransfers, outputs[p.res])) :
               idx \in 0..(Len(unusedDust) - 1) }
  ELSE UNION { LET p == popRandomValue(idx, unusedTransfers)
               IN selectLoop_DrawsAtTarget(outputs, neededMoney, p.vec, unusedDust, FALSE,
                             ToU(foundMoney + outputs[p.res].amount),
                             Append(selectedTransfers, outputs[p.res])) :
               idx \in 0..(Len(unusedTransfers) - 1) }

\* The loop without line 347: selectOneDust is never reset.
RECURSIVE selectLoop_KeepsForcing(_, _, _, _, _, _, _)
selectLoop_KeepsForcing(outputs, neededMoney, unusedTransfers, unusedDust, selectOneDust, foundMoney, selectedTransfers) ==
  IF ~(foundMoney < neededMoney /\ (unusedTransfers # <<>> \/ unusedDust # <<>>))
  THEN {[foundMoney |-> foundMoney, selectedTransfers |-> selectedTransfers]}
  ELSE IF (selectOneDust /\ unusedDust # <<>>) \/ unusedTransfers = <<>>
  THEN UNION { LET p == popRandomValue(idx, unusedDust)
               IN selectLoop_KeepsForcing(outputs, neededMoney, unusedTransfers, p.vec,
                             selectOneDust, ToU(foundMoney + outputs[p.res].amount),
                             Append(selectedTransfers, outputs[p.res])) :
               idx \in 0..(Len(unusedDust) - 1) }
  ELSE UNION { LET p == popRandomValue(idx, unusedTransfers)
               IN selectLoop_KeepsForcing(outputs, neededMoney, p.vec, unusedDust,
                             selectOneDust, ToU(foundMoney + outputs[p.res].amount),
                             Append(selectedTransfers, outputs[p.res])) :
               idx \in 0..(Len(unusedTransfers) - 1) }

\* The loop of lines 343-354, one result per sequence of random draws.
RECURSIVE selectLoop(_, _, _, _, _, _, _)
selectLoop(outputs, neededMoney, unusedTransfers, unusedDust, selectOneDust, foundMoney, selectedTransfers) ==
  IF ~(foundMoney < neededMoney /\ (unusedTransfers # <<>> \/ unusedDust # <<>>))
  THEN {[foundMoney |-> foundMoney, selectedTransfers |-> selectedTransfers]}
  ELSE IF selectOneDust \/ unusedTransfers = <<>>
  THEN UNION { LET p == popRandomValue(idx, unusedDust)
               IN selectLoop(outputs, neededMoney, unusedTransfers, p.vec, FALSE,
                             ToU(foundMoney + outputs[p.res].amount),
                             Append(selectedTransfers, outputs[p.res])) :
               idx \in 0..(Len(unusedDust) - 1) }
  ELSE UNION { LET p == popRandomValue(idx, unusedTransfers)
               IN selectLoop(outputs, neededMoney, p.vec, unusedDust, FALSE,
                             ToU(foundMoney + outputs[p.res].amount),
                             Append(selectedTransfers, outputs[p.res])) :
               idx \in 0..(Len(unusedTransfers) - 1) }

\* Lines 323-358 over the outputs getOutputs returned (line 327).
selectTransfersFrom(outputs, txs, neededMoney, addDust, dust) ==
  LET indices == [i \in 1..Len(outputs) |-> i]
      unusedTransfers == SelectSeq(indices,
                           LAMBDA i : ~isUsed(txs, outputs[i]) /\ dust < outputs[i].amount)
      unusedDust == SelectSeq(indices,
                           LAMBDA i : ~isUsed(txs, outputs[i]) /\ ~(dust < outputs[i].amount))
      selectOneDust == addDust /\ unusedDust # <<>>
  IN selectLoop(outputs, neededMoney, unusedTransfers, unusedDust, selectOneDust, 0, <<>>)

selectTransfersToSend(txs, neededMoney, addDust, dust) ==
  selectTransfersFrom(getOutputs, txs, neededMoney, addDust, dust)

\* -------------------------------------------------------------------- constructTx
\* r is what cryptonote::construct_tx returns and blobSize what
\* get_object_blobsize(tx) returns: both belong to the construction primitive.
\* constructTx with a size check that lets a transaction of exactly the limit pass.
constructTx_AboveLimitOnly(r, blobSize) ==
  IF ~r THEN INTERNAL_WALLET_ERROR
  ELSE IF blobSize > m_upperTransactionSizeLimit THEN TRANSACTION_SIZE_TOO_BIG
  ELSE NoError

constructTx(r, blobSize) ==
  IF ~r THEN INTERNAL_WALLET_ERROR
  ELSE IF blobSize >= m_upperTransactionSizeLimit THEN TRANSACTION_SIZE_TOO_BIG
  ELSE NoError

BlobSizes == {m_upperTransactionSizeLimit - 1, m_upperTransactionSizeLimit,
              m_upperTransactionSizeLimit + 1}
\* What the construction primitive can answer: a failure, or a transaction of
\* some serialized size.
ConstructOutcomes == {[r |-> FALSE, blobSize |-> 0]}
                       \cup {[r |-> TRUE, blobSize |-> b] : b \in BlobSizes}

\* -------------------------------------------------------------- doSendTransaction
\* txs, transfers: the cache; evs: the caller's event queue; outsRead: the decoy
\* sets as prepareInputs reads them; prev: the last construct_tx call so far.
\* request is "relay" when a relay request is returned, "null" otherwise.
doSendTransaction(txs, transfers, context, evs, outsRead, r, blobSize, prev) ==
  LET id == context.transactionId
      fail(ec, con) ==
        LET c == makeCompleteEvent(txs, id, ec)
        IN [transactions |-> c.transactions, events |-> Append(evs, c.event),
            request |-> "null", outs |-> context.outs, constructed |-> con]
  IN IF m_isStoping THEN fail(TX_CANCELLED, prev)
     ELSE
       LET transaction == txs[id]
           prep == prepareInputs(context.selectedTransfers, outsRead, context.mixIn)
           totalAmount == ToU(0 - transaction.totalAmount)
           changeDts == createChangeDestinations(m_account_address, totalAmount,
                                                 context.foundMoney)
           split == splitDestinations(transfers, transaction.firstTransferId,
                                      transaction.transferCount, changeDts, dustPolicy)
           con == [transactionId |-> id, sources |-> prep.sources,
                   splittedDests |-> split.splittedDests, dust |-> split.dust,
                   foundMoney |-> context.foundMoney, fee |-> transaction.fee,
                   mixIn |-> context.mixIn, r |-> r,
                   blobSize |-> IF r THEN blobSize ELSE 0]
           ec == constructTx(r, blobSize)
           hashed == [txs EXCEPT ![id].hash = "hash"]
           updated == updateTransaction(hashed, id, totalAmount, context.selectedTransfers)
       IN IF split.ec # NoError THEN fail(split.ec, prev)
          ELSE IF ec # NoError THEN fail(ec, con)
          ELSE [transactions |-> updated,
                events |-> notifyBalanceChanged(updated, evs),
                request |-> "relay",
                outs |-> SubSeq(prep.outs, 1, Len(context.outs)),
                constructed |-> con]

\* ------------------------------------------------------------------------- stop
stop ==
  /\ ~crashed
  /\ m_isStoping' = TRUE
  /\ UNCHANGED <<m_transactions, m_transfers, dustPolicy, contexts, events, requests,
                 lastCall, constructed, crashed, evaluation>>

\* --------------------------------------------------------------- makeSendRequest
validateTransfersAddresses(transfers) ==
  IF \E i \in 1..Len(transfers) : ~parseAccountAddressString(transfers[i].address)
  THEN BAD_ADDRESS
  ELSE NoError

\* Lines 97-99: the checks that run before the context is made.
ValidateRequest(transfers, fee) ==
  IF transfers = <<>> THEN [ec |-> ZERO_DESTINATION, value |-> 0]
  ELSE IF validateTransfersAddresses(transfers) # NoError
  THEN [ec |-> BAD_ADDRESS, value |-> 0]
  ELSE countNeededMoney(fee, transfers)

\* makeSendRequest leaves by an exception: nothing but the caller sees it.
Throws(ec, stage) ==
  /\ lastCall' = [seq |-> lastCall.seq + 1, result |-> "threw", ec |-> ec,
                  stage |-> stage]
  /\ UNCHANGED <<m_isStoping, m_transactions, m_transfers, dustPolicy, contexts, events,
                 requests, constructed, crashed, evaluation>>

\* The amounts of a list of coins, each distinct amount once, in first-seen order.
RECURSIVE DistinctAmounts(_)
DistinctAmounts(coins) ==
  IF coins = <<>> THEN <<>>
  ELSE LET before == DistinctAmounts(SubSeq(coins, 1, Len(coins) - 1))
           a == coins[Len(coins)].amount
       IN IF a \in Range(before) THEN before ELSE Append(before, a)

\* makeGetRandomOutsRequest asking for each distinct amount once.
makeGetRandomOutsRequest_Distinct(context) ==
  [kind |-> "GetRandomOutsByAmounts", transactionId |-> context.transactionId,
   amounts |-> DistinctAmounts(context.selectedTransfers),
   outsCount |-> ToU(context.mixIn + 1)]

makeGetRandomOutsRequest(context) ==
  [kind |-> "GetRandomOutsByAmounts", transactionId |-> context.transactionId,
   amounts |-> [i \in 1..Len(context.selectedTransfers) |->
                  context.selectedTransfers[i].amount],
   outsCount |-> ToU(context.mixIn + 1)]

RelayRequest(transactionId) ==
  [kind |-> "RelayTransaction", transactionId |-> transactionId, amounts |-> <<>>,
   outsCount |-> 0]

\* Lines 103-115, for one outcome sel of the coin selection.
SendSelected(transfers, fee, mixIn, neededMoney, sel) ==
  IF sel.foundMoney < neededMoney THEN Throws(WRONG_AMOUNT, "selection")
  ELSE
    LET txs1 == addNewTransaction(m_transactions, neededMoney, fee, Len(m_transfers),
                                     transfers)
           store == m_transfers \o transfers
           id == Len(txs1)
           context == [pc |-> "decoy", transactionId |-> id, mixIn |-> mixIn,
                       selectedTransfers |-> sel.selectedTransfers, outs |-> <<>>,
                       foundMoney |-> sel.foundMoney]
    IN    /\ m_transfers' = store
          /\ IF mixIn # 0
             THEN /\ m_transactions' = txs1
                  /\ contexts' = Append(contexts, context)
                  /\ requests' = Append(requests, <<makeGetRandomOutsRequest(context)>>)
                  /\ lastCall' = [seq |-> lastCall.seq + 1, result |-> "request",
                                  ec |-> NoError, stage |-> "sent"]
                  /\ events' = Append(events, <<>>)
                  /\ UNCHANGED constructed
             ELSE \E o \in ConstructOutcomes :
                    \E d \in {doSendTransaction(txs1, store, context, <<>>, <<>>, o.r,
                                               o.blobSize, constructed)} :
                       /\ m_transactions' = d.transactions
                       /\ events' = Append(events, d.events)
                       /\ constructed' = d.constructed
                       /\ contexts' = Append(contexts,
                            IF d.request = "relay" THEN [context EXCEPT !.pc = "relay"]
                            ELSE Released)
                       /\ requests' = Append(requests,
                            IF d.request = "relay" THEN <<RelayRequest(id)>> ELSE <<>>)
                       /\ lastCall' = [seq |-> lastCall.seq + 1,
                                       result |-> IF d.request = "relay" THEN "request"
                                                  ELSE "null",
                                       ec |-> NoError, stage |-> "sent"]
          /\ UNCHANGED <<m_isStoping, dustPolicy, crashed, evaluation>>

\* makeSendRequest with the record added to the cache before the checks of lines
\* 97-99 run.
makeSendRequest_RecordFirst(transfers, fee, mixIn) ==
  /\ ~crashed
  /\ lastCall.seq < MaxCalls
  /\ LET v == ValidateRequest(transfers, fee)
     IN IF v.ec # NoError
        THEN /\ m_transactions' = addNewTransaction(m_transactions, v.value, fee,
                                                    Len(m_transfers), transfers)
             /\ m_transfers' = m_transfers \o transfers
             /\ contexts' = Append(contexts, Released)
             /\ events' = Append(events, <<>>)
             /\ requests' = Append(requests, <<>>)
             /\ lastCall' = [seq |-> lastCall.seq + 1, result |-> "threw", ec |-> v.ec,
                             stage |-> "validation"]
             /\ UNCHANGED <<m_isStoping, dustPolicy, constructed, crashed, evaluation>>
        ELSE \E sel \in selectTransfersToSend(m_transactions, v.value, 0 = mixIn,
                                              dustPolicy.dustThreshold) :
               SendSelected(transfers, fee, mixIn, v.value, sel)

makeSendRequest(transfers, fee, mixIn) ==
  /\ ~crashed
  /\ lastCall.seq < MaxCalls
  /\ LET v == ValidateRequest(transfers, fee)
     IN IF v.ec # NoError THEN Throws(v.ec, "validation")
        ELSE \E sel \in selectTransfersToSend(m_transactions, v.value, 0 = mixIn,
                                              dustPolicy.dustThreshold) :
               SendSelected(transfers, fee, mixIn, v.value, sel)

\* ------------------------------------------- sendTransactionRandomOutsByAmount
DecoyEntries == [global_amount_index : 0..MaxGidx, out_key : {"decoy"}]
DecoyLists == SeqsUpTo(DecoyEntries, MaxMixin + 1)

\* The callback ended the send: the event is pushed and the context released.
FinishSend(id, ec) ==
  LET c == makeCompleteEvent(m_transactions, id, ec)
  IN /\ m_transactions' = c.transactions
     /\ events' = [events EXCEPT ![id] = Append(@, c.event)]
     /\ contexts' = [contexts EXCEPT ![id] = Released]
     /\ UNCHANGED <<m_isStoping, m_transfers, dustPolicy, requests, lastCall,
                    constructed, crashed, evaluation>>

\* Lines 150-152 with the decoy sets as read, from the cache txs and the event
\* queue evs.
ContinueSendFrom(id, context, outsRead, txs, evs) ==
  \E o \in ConstructOutcomes :
    \E d \in {doSendTransaction(txs, m_transfers, context, evs,
                               outsRead, o.r, o.blobSize, constructed)} :
       /\ m_transactions' = d.transactions
       /\ events' = [events EXCEPT ![id] = d.events]
       /\ constructed' = d.constructed
       /\ contexts' = [contexts EXCEPT ![id] =
                         IF d.request = "relay"
                         THEN [context EXCEPT !.pc = "relay", !.outs = d.outs]
                         ELSE Released]
       /\ requests' = IF d.request = "relay"
                      THEN [requests EXCEPT ![id] = Append(@, RelayRequest(id))]
                      ELSE requests
       /\ UNCHANGED <<m_isStoping, m_transfers, dustPolicy, lastCall, crashed, evaluation>>

ContinueSend(id, context, outsRead) ==
  ContinueSendFrom(id, context, outsRead, m_transactions, events[id])

\* The callback without the return of line 139: after the completion event of a
\* failed or cancelled fetch it goes on to doSendTransaction.
sendTransactionRandomOutsByAmount_NoReturn(id, ecIn, outs) ==
  /\ ~crashed
  /\ contexts[id].pc = "decoy"
  /\ LET context == [contexts[id] EXCEPT !.outs = outs]
         ec == IF m_isStoping THEN TX_CANCELLED ELSE ecIn
         c == makeCompleteEvent(m_transactions, id, ec)
     IN IF ec # NoError
        THEN ContinueSendFrom(id, context, outs, c.transactions,
                              Append(events[id], c.event))
        ELSE IF \E i \in 1..Len(outs) : Len(outs[i]) < context.mixIn
        THEN FinishSend(id, MIXIN_COUNT_TOO_BIG)
        ELSE /\ Len(outs) = 0 \/ Len(outs) >= Len(context.selectedTransfers)
             /\ ContinueSend(id, context, outs)

\* The callback without the stop check of lines 133-135.
sendTransactionRandomOutsByAmount_NoStopCheck(id, ecIn, outs) ==
  /\ ~crashed
  /\ contexts[id].pc = "decoy"
  /\ LET context == [contexts[id] EXCEPT !.outs = outs]
     IN IF ecIn # NoError THEN FinishSend(id, ecIn)
        ELSE IF \E i \in 1..Len(outs) : Len(outs[i]) < context.mixIn
        THEN FinishSend(id, MIXIN_COUNT_TOO_BIG)
        ELSE /\ Len(outs) = 0 \/ Len(outs) >= Len(context.selectedTransfers)
             /\ ContinueSend(id, context, outs)

\* The response filled context->outs with outs and the driver calls back with ecIn.
sendTransactionRandomOutsByAmount(id, ecIn, outs) ==
  /\ ~crashed
  /\ contexts[id].pc = "decoy"
  /\ LET context == [contexts[id] EXCEPT !.outs = outs]
         ec == IF m_isStoping THEN TX_CANCELLED ELSE ecIn
         n == Len(context.selectedTransfers)
     IN IF ec # NoError THEN FinishSend(id, ec)
        ELSE IF \E i \in 1..Len(outs) : Len(outs[i]) < context.mixIn
        THEN FinishSend(id, MIXIN_COUNT_TOO_BIG)
        ELSE IF Len(outs) = 0 \/ Len(outs) >= n
        THEN ContinueSend(id, context, outs)
        ELSE \* outs[i] is read past the end of the vector: undefined behaviour
             \/ /\ crashed' = TRUE
                /\ UNCHANGED <<m_isStoping, m_transactions, m_transfers, dustPolicy,
                               contexts, events, requests, lastCall, constructed,
                               evaluation>>
             \/ \E garbage \in [1..(n - Len(outs)) -> DecoyLists] :
                  ContinueSend(id, context, outs \o garbage)

\* ------------------------------------------------------- relayTransactionCallback
\* The relay callback completing with success whatever the relay answered.
relayTransactionCallback_DropsCode(id, ec) ==
  /\ ~crashed
  /\ contexts[id].pc = "relay"
  /\ IF m_isStoping
     THEN /\ contexts' = [contexts EXCEPT ![id] = Released]
          /\ UNCHANGED <<m_isStoping, m_transactions, m_transfers, dustPolicy, events,
                         requests, lastCall, constructed, crashed, evaluation>>
     ELSE FinishSend(id, NoError)

relayTransactionCallback(id, ec) ==
  /\ ~crashed
  /\ contexts[id].pc = "relay"
  /\ IF m_isStoping
     THEN /\ contexts' = [contexts EXCEPT ![id] = Released]
          /\ UNCHANGED <<m_isStoping, m_transactions, m_transfers, dustPolicy, events,
                         requests, lastCall, constructed, crashed, evaluation>>
     ELSE FinishSend(id, ec)

\* ------------------------------------------------------------------ specification
AmountInputs == {0 - 1, 0, 1, MaxSigned}
TransferInputs == {[address |-> "addrA", amount |-> a] : a \in AmountInputs}
                    \cup {[address |-> "bad", amount |-> 1]}
FeeInputs == {1, Mod - 1}
ResponseCodes == {NoError, NETWORK_ERROR}
\* What the decoy fetch leaves in context->outs for a request of n amounts: up to
\* n decoy sets, none when the fetch failed.
DecoyResponses(n, ecIn) == IF ecIn = NoError THEN SeqsUpTo(DecoyLists, n) ELSE {<<>>}

Next ==
  \/ stop
  \/ \E transfers \in SeqsUpTo(TransferInputs, MaxTransfers), fee \in FeeInputs,
        mixIn \in 0..MaxMixin :
       makeSendRequest(transfers, fee, mixIn)
  \/ \E id \in 1..Len(contexts), ecIn \in ResponseCodes :
       \E outs \in DecoyResponses(Len(contexts[id].selectedTransfers), ecIn) :
         sendTransactionRandomOutsByAmount(id, ecIn, outs)
  \/ \E id \in 1..Len(contexts), ec \in ResponseCodes :
       relayTransactionCallback(id, ec)

Spec == Init /\ [][Next]_vars

\* ------------------------------------------------- countNeededMoney on its own
\* Every int64_t amount and every uint64_t fee of the width W.
SignedAmounts == (0 - MaxSigned - 1)..MaxSigned
Fees == 0..(Mod - 1)
NeededMoneyTransfers ==
  SeqsUpTo({[address |-> "addrA", amount |-> a] : a \in SignedAmounts}, MaxTransfers)

InitNeededMoney ==
  /\ InitSender
  /\ dustPolicy = [dustThreshold |-> 0, addToFee |-> TRUE, addrForDust |-> "dustAddr"]
  /\ \E fee \in Fees, transfers \in NeededMoneyTransfers :
       evaluation = [fn |-> "countNeededMoney", fee |-> fee, transfers |-> transfers,
                     returned |-> FALSE, ec |-> NoError, value |-> 0]

EvaluateCountNeededMoney ==
  /\ evaluation.fn = "countNeededMoney"
  /\ ~evaluation.returned
  /\ LET v == countNeededMoney(evaluation.fee, evaluation.transfers)
     IN evaluation' = [evaluation EXCEPT !.returned = TRUE, !.ec = v.ec,
                                        !.value = v.value]
  /\ UNCHANGED <<m_isStoping, m_transactions, m_transfers, dustPolicy, contexts, events,
                 requests, lastCall, constructed, crashed>>

SpecNeededMoney == InitNeededMoney /\ [][EvaluateCountNeededMoney]_vars

\* ------------------------------------------------ splitDestinations on its own
\* Every threshold and both disposals of the dust policy.
SplitPolicies ==
  {[dustThreshold |-> t, addToFee |-> f, addrForDust |-> "dustAddr"] :
     t \in Fees, f \in BOOLEAN}

\* Either the whole of splitDestinations, for one stored transfer and a change
\* amount, or its lines 213-216 for a leftover dust of any size.
InitSplit ==
  /\ InitSender
  /\ dustPolicy = [dustThreshold |-> 0, addToFee |-> TRUE, addrForDust |-> "dustAddr"]
  /\ \/ \E policy \in SplitPolicies, amount \in 1..MaxSigned, change \in Fees :
          evaluation = [fn |-> "splitDestinations", policy |-> policy,
                        transfers |-> <<[address |-> "addrA", amount |-> amount]>>,
                        change |-> change, returned |-> FALSE, ec |-> NoError,
                        splittedDests |-> <<>>, dust |-> 0]
     \/ \E policy \in SplitPolicies, dust \in Fees :
          evaluation = [fn |-> "splitDestinationsFrom", policy |-> policy,
                        transfers |-> <<>>, change |-> dust, returned |-> FALSE,
                        ec |-> NoError, splittedDests |-> <<>>, dust |-> 0]

EvaluateSplitDestinations ==
  /\ evaluation.fn = "splitDestinations"
  /\ ~evaluation.returned
  /\ \E v \in {splitDestinations(evaluation.transfers, 1, Len(evaluation.transfers),
                                  createChangeDestinations(m_account_address, 0,
                                                           evaluation.change),
                                  evaluation.policy)} :
       evaluation' = [evaluation EXCEPT !.returned = TRUE, !.ec = v.ec,
                                        !.splittedDests = v.splittedDests,
                                        !.dust = v.dust]
  /\ UNCHANGED <<m_isStoping, m_transactions, m_transfers, dustPolicy, contexts, events,
                 requests, lastCall, constructed, crashed>>

EvaluateSplitDestinationsFrom ==
  /\ evaluation.fn = "splitDestinationsFrom"
  /\ ~evaluation.returned
  /\ \E v \in {splitDestinationsFrom([ec |-> NoError, splitted_dsts |-> <<>>,
                                       dust |-> evaluation.change],
                                      evaluation.policy)} :
       evaluation' = [evaluation EXCEPT !.returned = TRUE, !.ec = v.ec,
                                        !.splittedDests = v.splittedDests,
                                        !.dust = v.dust]
  /\ UNCHANGED <<m_isStoping, m_transactions, m_transfers, dustPolicy, contexts, events,
                 requests, lastCall, constructed, crashed>>

NextSplit == EvaluateSplitDestinations \/ EvaluateSplitDestinationsFrom

SpecSplit == InitSplit /\ [][NextSplit]_vars

\* ---------------------------------------------------- prepareInputs on its own
MaxDecoys == 3
MaxIndex == 2

SelectedCoins ==
  {[outputKey |-> "k1", amount |-> 1, globalOutputIndex |-> g, unlocked |-> TRUE] :
     g \in 0..MaxIndex}

DecoySets == SeqsUpTo([global_amount_index : 0..MaxIndex, out_key : {"decoy"}], MaxDecoys)

\* What doSendTransaction can hand to prepareInputs at line 165 for one selected
\* coin: no decoy set at all (mixin 0, or an empty response), or, with mixin
\* above 0, a decoy set that the check of lines 142-148 let through.
InitPrepareInputs ==
  /\ InitSender
  /\ dustPolicy = [dustThreshold |-> 0, addToFee |-> TRUE, addrForDust |-> "dustAddr"]
  /\ \E td \in SelectedCoins, mixIn \in 0..MaxDecoys, decoys \in DecoySets, hasOuts \in BOOLEAN :
       /\ hasOuts => (mixIn > 0 /\ Len(decoys) >= mixIn)
       /\ ~hasOuts => decoys = <<>>
       /\ evaluation = [fn |-> "prepareInputs", td |-> td, mixIn |-> mixIn,
                        outs |-> IF hasOuts THEN <<decoys>> ELSE <<>>,
                        returned |-> FALSE, sources |-> <<>>, sorted |-> <<>>]

EvaluatePrepareInputs ==
  /\ evaluation.fn = "prepareInputs"
  /\ ~evaluation.returned
  /\ \E v \in {prepareInputs(<<evaluation.td>>, evaluation.outs, evaluation.mixIn)} :
       evaluation' = [evaluation EXCEPT !.returned = TRUE, !.sources = v.sources,
                                        !.sorted = v.outs]
  /\ UNCHANGED <<m_isStoping, m_transactions, m_transfers, dustPolicy, contexts, events,
                 requests, lastCall, constructed, crashed>>

SpecPrepareInputs == InitPrepareInputs /\ [][EvaluatePrepareInputs]_vars

\* --------------------------------------------- selectTransfersToSend on its own
MaxCoins == 3
MaxCoinAmount == 3

\* An owned output is free (unlocked, not used), used by a pending transaction,
\* or locked.
CoinStatuses == {"free", "used", "locked"}
CoinKinds == [amount : 1..MaxCoinAmount, status : CoinStatuses]
CoinKeys == <<"k1", "k2", "k3", "k4", "k5", "k6">>

\* The container's outputs and the cache's used outputs for a list of coin kinds.
WalletOf(kinds) ==
  [i \in 1..Len(kinds) |->
     [outputKey |-> CoinKeys[i], amount |-> kinds[i].amount, globalOutputIndex |-> i,
      unlocked |-> kinds[i].status # "locked"]]

UsedOf(kinds) ==
  SelectSeq(FilterUnlocked(WalletOf(kinds)),
            LAMBDA o : \E i \in 1..Len(kinds) :
                         CoinKeys[i] = o.outputKey /\ kinds[i].status = "used")

\* The selector draws over every index of its pools, so the order in which
\* getOutputs returns the outputs adds no behaviour: each wallet is taken in one
\* order, by amount and then status.
KindRank(kind) ==
  3 * kind.amount + (CASE kind.status = "free" -> 0 [] kind.status = "used" -> 1 [] OTHER -> 2)

InContainerOrder(kinds) ==
  \A i \in 1..(Len(kinds) - 1) : KindRank(kinds[i]) <= KindRank(kinds[i + 1])

\* Every wallet of up to MaxCoins outputs, every neededMoney countNeededMoney can
\* return, every dust threshold up to the largest amount, with and without dust
\* inclusion.
InitSelect ==
  /\ InitSender
  /\ dustPolicy = [dustThreshold |-> 0, addToFee |-> TRUE, addrForDust |-> "dustAddr"]
  /\ \E kinds \in SeqsUpTo(CoinKinds, MaxCoins) :
       /\ InContainerOrder(kinds)
       /\ \E neededMoney \in 1..MaxSigned, dust \in 0..MaxCoinAmount, addDust \in BOOLEAN :
            evaluation = [fn |-> "selectTransfersToSend", wallet |-> WalletOf(kinds),
                          txs |-> <<[usedOutputs |-> UsedOf(kinds)]>>,
                          neededMoney |-> neededMoney, dust |-> dust, addDust |-> addDust,
                          returned |-> FALSE, foundMoney |-> 0, selectedTransfers |-> <<>>]

EvaluateSelect ==
  /\ evaluation.fn = "selectTransfersToSend"
  /\ ~evaluation.returned
  /\ \E sel \in selectTransfersFrom(FilterUnlocked(evaluation.wallet), evaluation.txs,
                                     evaluation.neededMoney, evaluation.addDust,
                                     evaluation.dust) :
       evaluation' = [evaluation EXCEPT !.returned = TRUE, !.foundMoney = sel.foundMoney,
                                        !.selectedTransfers = sel.selectedTransfers]
  /\ UNCHANGED <<m_isStoping, m_transactions, m_transfers, dustPolicy, contexts, events,
                 requests, lastCall, constructed, crashed>>

SpecSelect == InitSelect /\ [][EvaluateSelect]_vars

\* ----------------------------------------- makeGetRandomOutsRequest on its own
\* A context as makeSendRequest leaves it at line 110: one to MaxCoins selected
\* coins of any amounts, any mixin above 0.
InitDecoyRequest ==
  /\ InitSender
  /\ dustPolicy = [dustThreshold |-> 0, addToFee |-> TRUE, addrForDust |-> "dustAddr"]
  /\ \E kinds \in SeqsUpTo([amount : 1..MaxCoinAmount, status : {"free"}], MaxCoins), mixIn \in 1..(Mod - 1) :
       /\ kinds # <<>>
       /\ evaluation = [fn |-> "makeGetRandomOutsRequest",
                        context |-> [pc |-> "decoy", transactionId |-> 1, mixIn |-> mixIn,
                                     selectedTransfers |-> FilterUnlocked(WalletOf(kinds)),
                                     outs |-> <<>>,
                                     foundMoney |-> SumSeq([i \in 1..Len(kinds) |->
                                                              kinds[i].amount])],
                        returned |-> FALSE, request |-> RelayRequest(0)]

EvaluateDecoyRequest ==
  /\ evaluation.fn = "makeGetRandomOutsRequest"
  /\ ~evaluation.returned
  /\ evaluation' = [evaluation EXCEPT !.returned = TRUE,
                                      !.request = makeGetRandomOutsRequest(evaluation.context)]
  /\ UNCHANGED <<m_isStoping, m_transactions, m_transfers, dustPolicy, contexts, events,
                 requests, lastCall, constructed, crashed>>

SpecDecoyRequest == InitDecoyRequest /\ [][EvaluateDecoyRequest]_vars

\* ------------------------------------------------------------------------ claims
\* The number of send-completed events among evs.
CountCompleted(evs) ==
  Cardinality({k \in 1..Len(evs) : evs[k].type = "SendTransactionCompleted"})

\* The entry of a per-transaction log before the transaction existed is empty.
Old(log, id) == IF id <= Len(log) THEN log[id] ELSE <<>>

IsRelay(req) == req.kind = "RelayTransaction"

\* C1: at-most-once completion. After every step no transaction identifier has
\* more than one send-completed event, and a send that has its completion event
\* after the step got no request (decoy or relay) in that step.
AtMostOnceCompletion ==
  [][\A id \in 1..Len(events') :
       /\ CountCompleted(events'[id]) <= 1
       /\ CountCompleted(events'[id]) = 1 => requests'[id] = Old(requests, id)]_vars

\* A send completed after its decoy request and its relay request were answered,
\* while another send is still in flight.
AtMostOnceCompletionWitness ==
  \E id \in 1..Len(events), other \in 1..Len(events) :
    /\ CountCompleted(events[id]) = 1
    /\ Len(requests[id]) = 2
    /\ contexts[other].pc \in {"decoy", "relay"}

\* C2: no orphaned pending entries. Once the driver has resolved every request of
\* a send whose record was created (its context is released), the record's
\* sending state was updated and exactly one completion event was emitted for it.
NoOrphanedPendingEntries ==
  \A id \in 1..Len(contexts) :
    contexts[id].pc = "done" =>
      /\ m_transactions[id].stateUpdates = 1
      /\ CountCompleted(events[id]) = 1

\* C3: no local double-spend across concurrent sends. No owned output is in the
\* selected-coin lists of two sends that have not failed, and no owned output is
\* marked spent by two different transactions.
Failed(id) == m_transactions[id].sendingState \notin {"Sending", NoError}

Keys(outputs) == {outputs[k].outputKey : k \in 1..Len(outputs)}

NoLocalDoubleSpend ==
  \A i \in 1..Len(contexts), j \in 1..Len(contexts) :
    i # j =>
      /\ (~Failed(i) /\ ~Failed(j)) =>
            Keys(contexts[i].selectedTransfers) \cap Keys(contexts[j].selectedTransfers) = {}
      /\ Keys(m_transactions[i].usedOutputs) \cap Keys(m_transactions[j].usedOutputs) = {}

\* C4: cancellation between decoy request and response. When the decoy callback
\* of a send runs with the stop flag set, whatever the response, it pushes exactly
\* one completion event carrying TX_CANCELLED, sets the record's sending state to
\* that code, sets no next request and releases the context; and a send that has
\* a TX_CANCELLED completion event has no relay request.
CancelledBeforeDecoyResponse ==
  [][/\ \A id \in 1..Len(contexts) :
          (m_isStoping /\ contexts[id].pc = "decoy" /\ contexts'[id] # contexts[id]) =>
            /\ events'[id] = Append(events[id], CompletedEvent(id, TX_CANCELLED))
            /\ m_transactions'[id].sendingState = TX_CANCELLED
            /\ m_transactions'[id].stateUpdates = 1
            /\ requests'[id] = requests[id]
            /\ contexts'[id].pc = "done"
     /\ \A id \in 1..Len(events') :
          CompletedEvent(id, TX_CANCELLED) \in Range(events'[id]) =>
            ~\E k \in 1..Len(requests'[id]) : IsRelay(requests'[id][k])]_vars

\* A send with mixin > 0 whose decoy callback ran after stop(): its only request
\* is the decoy request and its only event the TX_CANCELLED completion.
CancelledBeforeDecoyResponseWitness ==
  \E id \in 1..Len(contexts) :
    /\ m_isStoping
    /\ contexts[id].pc = "done"
    /\ Len(requests[id]) = 1
    /\ requests[id][1].kind = "GetRandomOutsByAmounts"
    /\ events[id] = <<CompletedEvent(id, TX_CANCELLED)>>
    /\ m_transactions[id].sendingState = TX_CANCELLED

\* C5: validation errors leave all state unchanged. A makeSendRequest call whose
\* input fails the checks of lines 97-99 (empty list, zero amount, negative
\* amount, overflowing sum, address that does not parse) throws the error of the
\* failed check and leaves the cache, the transfer store, the contexts, the event
\* queues and the requests as they were.
ValidationErrors == {ZERO_DESTINATION, WRONG_AMOUNT, SUM_OVERFLOW, BAD_ADDRESS}

ValidationLeavesStateUnchanged ==
  [][lastCall'.seq # lastCall.seq =>
       \A transfers \in SeqsUpTo(TransferInputs, MaxTransfers), fee \in FeeInputs,
          mixIn \in 0..MaxMixin :
         (ValidateRequest(transfers, fee).ec # NoError
            /\ makeSendRequest(transfers, fee, mixIn)) =>
           /\ lastCall'.result = "threw"
           /\ lastCall'.ec = ValidateRequest(transfers, fee).ec
           /\ lastCall'.ec \in ValidationErrors
           /\ UNCHANGED <<m_transactions, m_transfers, contexts, events, requests,
                          constructed>>]_vars

\* The second call was rejected for an overflowing sum while the first send is in
\* flight.
ValidationLeavesStateUnchangedWitness ==
  /\ lastCall.seq = 2
  /\ lastCall.result = "threw"
  /\ lastCall.stage = "validation"
  /\ lastCall.ec = SUM_OVERFLOW
  /\ Len(m_transactions) = 1
  /\ contexts[1].pc = "decoy"

\* C6: insufficient funds. A call that fails because the coins found total less
\* than neededMoney fails with the insufficient-funds kind of the error taxonomy,
\* the kind listed separately from wrong-amount. The source has no code of that
\* kind.
INSUFFICIENT_FUNDS == "INSUFFICIENT_FUNDS"

InsufficientFundsKind ==
  (lastCall.result = "threw" /\ lastCall.stage = "selection") =>
    lastCall.ec = INSUFFICIENT_FUNDS

\* C7: mixin shortage check. A send with mixin > 0 that went through input
\* preparation up to its relay request got, for every selected coin, a decoy set
\* of at least mixin entries.
DecoySetForEveryAmount ==
  \A id \in 1..Len(contexts) :
    (contexts[id].pc = "relay" /\ contexts[id].mixIn > 0) =>
      /\ Len(contexts[id].outs) = Len(contexts[id].selectedTransfers)
      /\ \A i \in 1..Len(contexts[id].outs) :
           Len(contexts[id].outs[i]) >= contexts[id].mixIn

\* C8: assembly failures are terminal and typed. When doSendTransaction reaches
\* the construction primitive and it reports failure, or the serialized size is
\* at least the size limit, and whenever a completion event carrying BAD_ADDRESS,
\* INTERNAL_WALLET_ERROR or TRANSACTION_SIZE_TOO_BIG is pushed, that event is the
\* only event pushed (no balance event), it carries the code of the failure, the
\* record's sending state is that code, no request is returned and the selected
\* coins are not marked spent.
AssemblyFailureCode(con) ==
  IF ~con.r THEN INTERNAL_WALLET_ERROR
  ELSE IF con.blobSize >= m_upperTransactionSizeLimit THEN TRANSACTION_SIZE_TOO_BIG
  ELSE NoError

AssemblyErrors == {BAD_ADDRESS, INTERNAL_WALLET_ERROR, TRANSACTION_SIZE_TOO_BIG}

AssemblyFailuresTerminal ==
  [][\A id \in 1..Len(events') :
       LET constructs == constructed'.transactionId = id /\ constructed.transactionId # id
           code == AssemblyFailureCode(constructed')
           pushed == {ec \in AssemblyErrors :
                        /\ CompletedEvent(id, ec) \in Range(events'[id])
                        /\ CompletedEvent(id, ec) \notin Range(Old(events, id))}
       IN \A ec \in pushed \cup (IF constructs /\ code # NoError THEN {code} ELSE {}) :
            /\ events'[id] = Append(Old(events, id), CompletedEvent(id, ec))
            /\ m_transactions'[id].sendingState = ec
            /\ m_transactions'[id].stateUpdates = 1
            /\ m_transactions'[id].usedOutputs = <<>>
            /\ requests'[id] = Old(requests, id)
            /\ contexts'[id].pc = "done"]_vars

\* A send with mixin > 0 whose transaction came out at exactly the size limit,
\* and a send without mixin whose construction failed.
AssemblyFailuresTerminalWitness ==
  \E id \in 1..Len(events), other \in 1..Len(events) :
    /\ constructed.transactionId = id
    /\ constructed.mixIn = 1
    /\ constructed.r
    /\ constructed.blobSize = m_upperTransactionSizeLimit
    /\ events[id] = <<CompletedEvent(id, TRANSACTION_SIZE_TOO_BIG)>>
    /\ events[other] = <<CompletedEvent(other, INTERNAL_WALLET_ERROR)>>
    /\ requests[other] = <<>>

\* C10: value conservation of an assembled send. For the last call of the
\* construction primitive: the source entries' amounts sum to foundMoney, which
\* equals the destination entries' amounts plus the fee plus the leftover dust
\* when the policy folds dust into the fee; and the destination entries plus the
\* folded dust sum to the transfer amounts plus the change foundMoney - neededMoney.
SumAmounts(entries) == SumSeq([i \in 1..Len(entries) |-> entries[i].amount])

ValueConservation ==
  constructed.transactionId # 0 =>
    LET tx == m_transactions[constructed.transactionId]
        transfers == SubSeq(m_transfers, tx.firstTransferId,
                            tx.firstTransferId + tx.transferCount - 1)
        neededMoney == 0 - tx.totalAmount
        folded == IF dustPolicy.addToFee THEN constructed.dust ELSE 0
    IN /\ SumAmounts(constructed.sources) = constructed.foundMoney
       /\ constructed.foundMoney =
            SumAmounts(constructed.splittedDests) + constructed.fee + folded
       /\ neededMoney = constructed.fee + SumAmounts(transfers)
       /\ SumAmounts(constructed.splittedDests) + folded =
            SumAmounts(transfers) + (constructed.foundMoney - neededMoney)

\* A send of two coins whose change of 1 is dust, sent to the dust address.
ValueConservationWitness ==
  /\ constructed.transactionId # 0
  /\ Len(constructed.sources) = 2
  /\ constructed.dust = 1
  /\ ~dustPolicy.addToFee
  /\ \E k \in 1..Len(constructed.splittedDests) :
       constructed.splittedDests[k].addr = dustPolicy.addrForDust

\* C9: needed-money arithmetic with overflow detection. For every fee and every
\* list of transfers, countNeededMoney either throws ZERO_DESTINATION (only when
\* an amount is zero), WRONG_AMOUNT (only when an amount is negative) or
\* SUM_OVERFLOW, or returns exactly fee + the sum of the amounts; a zero or
\* negative amount and a sum that does not fit W bits are always rejected.
NeededMoneyExact ==
  (evaluation.fn = "countNeededMoney" /\ evaluation.returned) =>
    LET amounts == [i \in 1..Len(evaluation.transfers) |-> evaluation.transfers[i].amount]
        sum == evaluation.fee + SumSeq(amounts)
    IN /\ \/ evaluation.ec \in {ZERO_DESTINATION, WRONG_AMOUNT, SUM_OVERFLOW}
          \/ evaluation.ec = NoError /\ evaluation.value = sum
       /\ evaluation.ec = ZERO_DESTINATION => 0 \in Range(amounts)
       /\ evaluation.ec = WRONG_AMOUNT => \E a \in Range(amounts) : a < 0
       /\ (\E a \in Range(amounts) : a <= 0) => evaluation.ec # NoError
       /\ sum >= Mod => evaluation.ec # NoError

\* Two positive amounts, the first of which wraps the sum past 2^W, were rejected
\* by the overflow check.
NeededMoneyExactWitness ==
  /\ evaluation.fn = "countNeededMoney"
  /\ evaluation.returned
  /\ Len(evaluation.transfers) = 2
  /\ evaluation.transfers[1].amount > 0
  /\ evaluation.transfers[2].amount > 0
  /\ evaluation.fee + evaluation.transfers[1].amount >= Mod
  /\ evaluation.ec = SUM_OVERFLOW

\* C11 as stated: leftover dust is strictly below the threshold. Whenever
\* splitDestinations returns without error, the leftover dust of the change is
\* smaller than the dust threshold.
LeftoverDustBelowThreshold ==
  (evaluation.fn \in {"splitDestinations", "splitDestinationsFrom"}
     /\ evaluation.returned /\ evaluation.ec = NoError) =>
    evaluation.dust < evaluation.policy.dustThreshold

\* C11 as amended: whenever splitDestinations returns without error, the leftover
\* dust of the change is at most the dust threshold; it may equal the threshold.
LeftoverDustAtMostThreshold ==
  (evaluation.fn \in {"splitDestinations", "splitDestinationsFrom"}
     /\ evaluation.returned /\ evaluation.ec = NoError) =>
    evaluation.dust <= evaluation.policy.dustThreshold

\* A change amount whose decomposition leaves a dust equal to a threshold above 0.
LeftoverDustAtMostThresholdWitness ==
  /\ evaluation.fn = "splitDestinations"
  /\ evaluation.returned
  /\ evaluation.ec = NoError
  /\ evaluation.policy.dustThreshold > 1
  /\ evaluation.dust = evaluation.policy.dustThreshold

\* The source entry built by the evaluated prepareInputs call, and the decoys
\* that call was given.
Built == evaluation.sources[1]

GivenDecoys == IF evaluation.outs = <<>> THEN <<>> ELSE evaluation.outs[1]

RealEntry == [first |-> evaluation.td.globalOutputIndex, second |-> evaluation.td.outputKey]

\* C12: real output position equals its rank. The candidate list of the source
\* entry is in ascending global-index order, the entry at real_output is the real
\* output (index and key), real_output is the number of candidates with a smaller
\* global index, and with no decoys the list is the real output alone at 0.
RealOutputAtRank ==
  (evaluation.fn = "prepareInputs" /\ evaluation.returned) =>
    /\ \A i \in 1..(Len(Built.outputs) - 1) :
         Built.outputs[i].first <= Built.outputs[i + 1].first
    /\ Built.real_output \in 0..(Len(Built.outputs) - 1)
    /\ Built.outputs[Built.real_output + 1] = RealEntry
    /\ Built.real_output =
         Cardinality({i \in 1..Len(Built.outputs) : Built.outputs[i].first < RealEntry.first})
    /\ GivenDecoys = <<>> => (Built.outputs = <<RealEntry>> /\ Built.real_output = 0)

\* Decoys given out of order, the real output placed between two of them.
RealOutputAtRankWitness ==
  /\ evaluation.fn = "prepareInputs"
  /\ evaluation.returned
  /\ Len(GivenDecoys) >= 2
  /\ GivenDecoys[1].global_amount_index > GivenDecoys[2].global_amount_index
  /\ Len(Built.outputs) = 3
  /\ Built.real_output = 1

\* C13: anonymity set bounds. The candidate list of the source entry holds
\* exactly one entry with the real output's global index, which is the real
\* output itself, and at most mixin + 1 entries.
AnonymitySetBounds ==
  (evaluation.fn = "prepareInputs" /\ evaluation.returned) =>
    /\ Cardinality({i \in 1..Len(Built.outputs) :
                      Built.outputs[i].first = RealEntry.first}) = 1
    /\ \A i \in 1..Len(Built.outputs) :
         Built.outputs[i].first = RealEntry.first => Built.outputs[i] = RealEntry
    /\ Len(Built.outputs) <= evaluation.mixIn + 1

\* A decoy set that holds the real output's index, and a full candidate list.
AnonymitySetBoundsWitness ==
  /\ evaluation.fn = "prepareInputs"
  /\ evaluation.returned
  /\ \E i \in 1..Len(GivenDecoys) :
       GivenDecoys[i].global_amount_index = evaluation.td.globalOutputIndex
  /\ Len(GivenDecoys) > evaluation.mixIn + 1
  /\ Len(Built.outputs) = evaluation.mixIn + 1

\* C14: successful send and relay completion. A makeSendRequest call with mixin 0
\* whose construction succeeded below the size limit (no stop signalled) has
\* created one pending record, handed self-addressed change and dust that sum to
\* foundMoney - neededMoney to the construction, and returned exactly one relay
\* request and no completion event; and a relay response that arrives for such a
\* send without stop signalled emits exactly one completion event carrying the
\* response's error code and sets the record's sending state to that code.
ChangeOf(con) ==
  SumAmounts(SelectSeq(con.splittedDests, LAMBDA e : e.addr = m_account_address)) + con.dust

SendThenRelayStep ==
  /\ (/\ lastCall'.seq = lastCall.seq + 1
      /\ constructed' # constructed
      /\ constructed'.transactionId = Len(contexts) + 1
      /\ constructed'.mixIn = 0
      /\ constructed'.r
      /\ constructed'.blobSize < m_upperTransactionSizeLimit) =>
       LET id == Len(contexts) + 1 IN
         /\ ~m_isStoping
         /\ Len(m_transactions') = Len(m_transactions) + 1
         /\ m_transactions'[id].sendingState = "Sending"
         /\ ChangeOf(constructed') =
              constructed'.foundMoney - (0 - m_transactions'[id].totalAmount)
         /\ lastCall'.result = "request"
         /\ requests' = Append(requests, <<RelayRequest(id)>>)
         /\ CountCompleted(events'[id]) = 0
  /\ \A id \in 1..Len(contexts), ec \in ResponseCodes :
       (~m_isStoping /\ contexts[id].mixIn = 0 /\ relayTransactionCallback(id, ec)) =>
         /\ CountCompleted(events[id]) = 0
         /\ events'[id] = Append(events[id], CompletedEvent(id, ec))
         /\ m_transactions'[id].sendingState = ec
         /\ requests' = requests

SendThenRelay == [][SendThenRelayStep]_vars

\* A send with mixin 0 and a change above 0 whose relay was refused.
SendThenRelayWitness ==
  \E id \in 1..Len(contexts) :
    /\ constructed.mixIn = 0
    /\ constructed.transactionId = id
    /\ ChangeOf(constructed) > 0
    /\ requests[id] = <<RelayRequest(id)>>
    /\ events[id][Len(events[id])] = CompletedEvent(id, NETWORK_ERROR)
    /\ m_transactions[id].sendingState = NETWORK_ERROR
    /\ ~m_isStoping

\* The unlocked outputs of the evaluated selector call that the cache reports
\* as not used, and the selected coins in draw order.
FreeCoins ==
  {o \in Range(FilterUnlocked(evaluation.wallet)) : ~isUsed(evaluation.txs, o)}

Selected == evaluation.selectedTransfers

\* C15: the coin selector stops as soon as the target is met. Every call
\* returns; at return foundMoney is the sum of the selected amounts, and either
\* foundMoney >= neededMoney and without the last drawn coin it was below
\* neededMoney, or foundMoney < neededMoney and every free coin was selected.
SelectorStopsAtTarget ==
  evaluation.fn = "selectTransfersToSend" =>
    /\ ~evaluation.returned =>
         selectTransfersFrom(FilterUnlocked(evaluation.wallet), evaluation.txs,
                             evaluation.neededMoney, evaluation.addDust,
                             evaluation.dust) # {}
    /\ evaluation.returned =>
         /\ evaluation.foundMoney = SumAmounts(Selected)
         /\ \/ /\ evaluation.foundMoney >= evaluation.neededMoney
               /\ Selected # <<>>
               /\ evaluation.foundMoney - Selected[Len(Selected)].amount
                    < evaluation.neededMoney
            \/ /\ evaluation.foundMoney < evaluation.neededMoney
               /\ FreeCoins \subseteq Range(Selected)

\* The target met exactly by the second of three free coins, and a wallet
\* exhausted below the target.
SelectorStopsAtTargetWitness ==
  /\ evaluation.fn = "selectTransfersToSend"
  /\ evaluation.returned
  /\ Cardinality(FreeCoins) = 3
  /\ Len(Selected) = 2
  /\ evaluation.foundMoney = evaluation.neededMoney

\* C16: within one send, selection is sound. Every selected coin is an unlocked
\* owned output the cache reported as not used, and no output is selected twice.
SelectionSound ==
  (evaluation.fn = "selectTransfersToSend" /\ evaluation.returned) =>
    /\ Range(Selected) \subseteq FreeCoins
    /\ \A i, j \in 1..Len(Selected) :
         Selected[i].outputKey = Selected[j].outputKey => i = j

\* Both free coins selected from a wallet whose third coin is used or locked.
SelectionSoundWitness ==
  /\ evaluation.fn = "selectTransfersToSend"
  /\ evaluation.returned
  /\ Len(Selected) = 2
  /\ Len(evaluation.wallet) = 3
  /\ Cardinality(FreeCoins) = 2

\* C20: dust-sweeping rule of the selector. When dust inclusion is requested and
\* a free coin of at most the dust threshold exists, the first selected coin is
\* such a coin; every other selected coin of at most the dust threshold (and
\* every such coin when dust inclusion is not requested) was drawn only after all
\* free coins above the threshold had been selected.
DustForced ==
  evaluation.addDust /\ \E o \in FreeCoins : o.amount <= evaluation.dust

DustSweepingRule ==
  (evaluation.fn = "selectTransfersToSend" /\ evaluation.returned) =>
    /\ DustForced => (Selected # <<>> /\ Selected[1].amount <= evaluation.dust)
    /\ \A k \in 1..Len(Selected) :
         (Selected[k].amount <= evaluation.dust /\ ~(DustForced /\ k = 1)) =>
           {o \in FreeCoins : o.amount > evaluation.dust}
             \subseteq Range(SubSeq(Selected, 1, k - 1))

\* A forced dust coin first, then the only spendable coin, then a second dust
\* coin once the spendable pool was empty.
DustSweepingRuleWitness ==
  /\ evaluation.fn = "selectTransfersToSend"
  /\ evaluation.returned
  /\ DustForced
  /\ Len(Selected) = 3
  /\ Selected[1].amount <= evaluation.dust
  /\ Selected[2].amount > evaluation.dust
  /\ Selected[3].amount <= evaluation.dust

\* C17 as stated: decoy request contents. The request built for a mixin above 0
\* asks for mixin + 1 candidates per amount and lists each distinct amount of the
\* selected coins once.
RequestedAmounts == evaluation.request.amounts

SelectedAmounts ==
  {evaluation.context.selectedTransfers[i].amount :
     i \in 1..Len(evaluation.context.selectedTransfers)}

DecoyRequestDistinctAmounts ==
  (evaluation.fn = "makeGetRandomOutsRequest" /\ evaluation.returned) =>
    /\ evaluation.request.outsCount = evaluation.context.mixIn + 1
    /\ Range(RequestedAmounts) = SelectedAmounts
    /\ \A i, j \in 1..Len(RequestedAmounts) :
         RequestedAmounts[i] = RequestedAmounts[j] => i = j

\* C17 as amended: the request asks for mixin + 1 candidates per amount, the sum
\* taken in unsigned W-bit arithmetic, and lists the amount of every selected
\* coin, one entry per coin in selection order.
DecoyRequestAmountPerCoin ==
  (evaluation.fn = "makeGetRandomOutsRequest" /\ evaluation.returned) =>
    /\ evaluation.request.kind = "GetRandomOutsByAmounts"
    /\ evaluation.request.outsCount = (evaluation.context.mixIn + 1) % Mod
    /\ Len(RequestedAmounts) = Len(evaluation.context.selectedTransfers)
    /\ \A i \in 1..Len(RequestedAmounts) :
         RequestedAmounts[i] = evaluation.context.selectedTransfers[i].amount

\* Two selected coins of one amount: the request lists that amount twice.
DecoyRequestAmountPerCoinWitness ==
  /\ evaluation.fn = "makeGetRandomOutsRequest"
  /\ evaluation.returned
  /\ Len(RequestedAmounts) = 2
  /\ RequestedAmounts[1] = RequestedAmounts[2]
  /\ evaluation.request.outsCount = 2

\* C18: stop is checked at every state-entry point. Once the stop flag is set it
\* stays set, no step of any send adds a decoy-fetch or relay request, and every
\* step taken by a send that has a pending record (a call of makeSendRequest that
\* creates one, a decoy response, a relay response) finalizes that record with
\* the cancellation error.
Cancelled(id) ==
  /\ contexts'[id].pc = "done"
  /\ events'[id] # <<>>
  /\ events'[id][Len(events'[id])] = CompletedEvent(id, TX_CANCELLED)
  /\ CountCompleted(events'[id]) = 1
  /\ m_transactions'[id].sendingState = TX_CANCELLED

StopCheckedStep ==
  (m_isStoping /\ ~crashed') =>
    /\ m_isStoping'
    /\ \A id \in 1..Len(requests') : requests'[id] = Old(requests, id)
    /\ Len(m_transactions') > Len(m_transactions) => Cancelled(Len(m_transactions'))
    /\ \A id \in 1..Len(contexts) :
         (contexts[id].pc # "done" /\ contexts'[id] # contexts[id]) => Cancelled(id)

StopCheckedEverywhere == [][StopCheckedStep]_vars

\* C19: full anonymity set on every assembled send. Every source entry handed to
\* the construction of a send with mixin M > 0 holds M + 1 candidates: the real
\* output and exactly M decoys whose global index differs from the real one's.
DecoysOf(src) ==
  {i \in 1..Len(src.outputs) : src.outputs[i].first # src.outputs[src.real_output + 1].first}

FullAnonymitySet ==
  (constructed.transactionId # 0 /\ constructed.mixIn > 0) =>
    \A k \in 1..Len(constructed.sources) :
      /\ Len(constructed.sources[k].outputs) = constructed.mixIn + 1
      /\ Cardinality(DecoysOf(constructed.sources[k])) = constructed.mixIn

====
